---- MODULE Spec2Model ----
(***************************************************************************)
(* JSONSchemaToZod: the recursive compiler from a JSON schema node to a    *)
(* zod validator, and the validator applied to runtime values.             *)
(*                                                                         *)
(* Encoding.  A schema node is a function from the keywords it carries to  *)
(* their values, so "the keyword is present" is membership in DOMAIN and   *)
(* the object spread {...a, ...b} is  b @@ a.  A keyword whose TypeScript  *)
(* type is a union is a tagged tuple:                                      *)
(*   type                 <<"scalar", tag>>    | <<"array", <<tag, ...>>>> *)
(*   items                <<"one", node>>      | <<"many", <<node, ...>>>> *)
(*   additionalProperties <<"bool", b>>        | <<"schema", node>>        *)
(* properties is a sequence of <<name, node>> pairs in insertion order     *)
(* (names distinct), which is the order Object.entries visits them in.     *)
(* A JSON value is a tagged tuple as well; a number is <<"number", whole,  *)
(* frac>> with frac the tenths, so 1.5 is <<"number", 1, 5>>.              *)
(* A validator is a record whose kind names the zod class; a construction  *)
(* error (a thrown Error) is the record [kind |-> "error", message |-> m]. *)
(* schema is the caller's tree, zodSchema what convert returned or threw,   *)
(* value and result one safeParse call; pending is used only when convert  *)
(* is run one parseSchema invocation at a time.                            *)
(***************************************************************************)
EXTENDS Integers, Sequences, FiniteSets, TLC

VARIABLES schema, zodSchema, value, result, pc, pending

vars == <<schema, zodSchema, value, result, pc, pending>>

-----------------------------------------------------------------------------
(* JSON values                                                             *)

Str(s) == <<"string", s>>
Num(w, f) == <<"number", w, f>>
Bool(b) == <<"boolean", b>>
Null == <<"null">>
Undefined == <<"undefined">>
Arr(a) == <<"array", a>>
Obj(o) == <<"object", o>>

EmptyObject == [k \in {} |-> Null]

-----------------------------------------------------------------------------
(* Schema nodes                                                            *)

Has(s, k) == k \in DOMAIN s

Scalar(t) == <<"scalar", t>>
TypeArray(ts) == <<"array", ts>>
OneItem(s) == <<"one", s>>
ManyItems(ss) == <<"many", ss>>
APBool(b) == <<"bool", b>>
APSchema(s) == <<"schema", s>>

EmptySchema == [k \in {} |-> Null]

Without(s, k) == [x \in DOMAIN s \ {k} |-> s[x]]

PropKeys(props) == {props[i][1] : i \in 1..Len(props)}
PropGet(props, k) == props[CHOOSE i \in 1..Len(props) : props[i][1] = k][2]

(* { ...a, ...b } on property maps: a's keys keep their place and take b's *)
(* definition when b has one; b's new keys follow in b's order.            *)
SpreadProps(a, b) ==
    [i \in 1..Len(a) |->
        IF a[i][1] \in PropKeys(b) THEN <<a[i][1], PropGet(b, a[i][1])>> ELSE a[i]]
    \o SelectSeq(b, LAMBDA p : p[1] \notin PropKeys(a))

(* Array.from(new Set(xs)): first occurrences, in order.                   *)
RECURSIVE Dedup(_)
Dedup(xs) ==
    IF xs = <<>> THEN <<>>
    ELSE LET front == Dedup(SubSeq(xs, 1, Len(xs) - 1))
             last == xs[Len(xs)]
         IN IF \E i \in 1..Len(front) : front[i] = last THEN front
            ELSE Append(front, last)

SeqToSet(xs) == {xs[i] : i \in 1..Len(xs)}

-----------------------------------------------------------------------------
(* Validators and construction errors                                      *)

Error(m) == [kind |-> "error", message |-> m]
IsError(z) == z.kind = "error"

ErrArrayItems == Error("Array schema must have \"items\" defined")
ErrUnsupported == Error("Unsupported schema type")

ZAny == [kind |-> "any"]
ZNever == [kind |-> "never"]
ZNull == [kind |-> "null"]
ZBoolean == [kind |-> "boolean"]
ZNumber(checks) == [kind |-> "number", checks |-> checks]
ZString(checks) == [kind |-> "string", checks |-> checks]
ZEffects(inner, enum) == [kind |-> "effects", inner |-> inner, enum |-> enum]
ZNullable(inner) == [kind |-> "nullable", inner |-> inner]
ZOptional(inner) == [kind |-> "optional", inner |-> inner]
ZArray(element) == [kind |-> "array", element |-> element]
ZUnion(options) == [kind |-> "union", options |-> options]
ZObject(shape, catchall, unknownKeys) ==
    [kind |-> "object", shape |-> shape, catchall |-> catchall,
     unknownKeys |-> unknownKeys]

(* A thrown Error leaves map() at the first element that throws.           *)
HasError(zs) == \E i \in 1..Len(zs) : IsError(zs[i])
FirstError(zs) ==
    zs[CHOOSE i \in 1..Len(zs) :
          IsError(zs[i]) /\ \A j \in 1..(i - 1) : ~IsError(zs[j])]

(* x.nullable(), x.optional(), z.array(x), z.union(xs) are never reached   *)
(* when building x threw.                                                  *)
Nullable(z) == IF IsError(z) THEN z ELSE ZNullable(z)
Optional(z) == IF IsError(z) THEN z ELSE ZOptional(z)
ArrayOf(z) == IF IsError(z) THEN z ELSE ZArray(z)
UnionOf(zs) == IF HasError(zs) THEN FirstError(zs) ELSE ZUnion(zs)

-----------------------------------------------------------------------------
(* The compiler                                                            *)

RECURSIVE parseSchema(_)
RECURSIVE handleTypeArray(_)
RECURSIVE handleNullableType(_)
RECURSIVE createUnionFromTypes(_, _)
RECURSIVE handleSingleType(_)
RECURSIVE parseArray(_)
RECURSIVE parseObject(_)
RECURSIVE parseCombinator(_)
RECURSIVE parseOneOf(_)
RECURSIVE parseAnyOf(_)
RECURSIVE parseAllOf(_)

IsTypeArray(s) == Has(s, "type") /\ s["type"][1] = "array"

(* switch (schema.format) ... if (schema.enum) refine(includes)            *)
(* Mutant: with enum present the membership test is put on the plain      *)
(* string validator, in place of the format check.                         *)
parseString_EnumReplacesFormat(s) ==
    LET format == IF Has(s, "format") THEN s["format"] ELSE "undefined"
        zodSchema0 ==
            CASE format = "email" -> ZString(<<"email">>)
              [] format = "date-time" -> ZString(<<"datetime">>)
              [] format = "uri" -> ZString(<<"url">>)
              [] format = "uuid" -> ZString(<<"uuid">>)
              [] format = "date" -> ZString(<<"date">>)
              [] OTHER -> ZString(<<>>)
    IN IF Has(s, "enum") THEN ZEffects(ZString(<<>>), s["enum"]) ELSE zodSchema0

parseString(s) ==
    LET format == IF Has(s, "format") THEN s["format"] ELSE "undefined"
        zodSchema0 ==
            CASE format = "email" -> ZString(<<"email">>)
              [] format = "date-time" -> ZString(<<"datetime">>)
              [] format = "uri" -> ZString(<<"url">>)
              [] format = "uuid" -> ZString(<<"uuid">>)
              [] format = "date" -> ZString(<<"date">>)
              [] OTHER -> ZString(<<>>)
    IN IF Has(s, "enum") THEN ZEffects(zodSchema0, s["enum"]) ELSE zodSchema0

parseSchema(s) ==
    IF IsTypeArray(s) THEN handleTypeArray(s) ELSE handleSingleType(s)

handleTypeArray(s) ==
    IF ~IsTypeArray(s) THEN Error("Expected schema.type to be an array")
    ELSE IF \E i \in 1..Len(s["type"][2]) : s["type"][2][i] = "null"
         THEN handleNullableType(s)
         ELSE createUnionFromTypes(s["type"][2], s)

(* Mutant: the non-null copy keeps only the type, not the other keywords.  *)
handleNullableType_TypeOnly(s) ==
    IF ~IsTypeArray(s) THEN Error("Expected schema.type to be an array")
    ELSE LET rest == SelectSeq(s["type"][2], LAMBDA t : t # "null")
             nonNullSchema ==
                 "type" :> (IF Len(rest) = 1 THEN Scalar(rest[1])
                            ELSE TypeArray(rest))
         IN Nullable(parseSchema(nonNullSchema))

handleNullableType(s) ==
    IF ~IsTypeArray(s) THEN Error("Expected schema.type to be an array")
    ELSE LET rest == SelectSeq(s["type"][2], LAMBDA t : t # "null")
             nonNullSchema ==
                 ("type" :> (IF Len(rest) = 1 THEN Scalar(rest[1])
                             ELSE TypeArray(rest))) @@ s
         IN Nullable(parseSchema(nonNullSchema))

createUnionFromTypes(types, baseSchema) ==
    UnionOf([i \in 1..Len(types) |->
                parseSchema(("type" :> Scalar(types[i])) @@ baseSchema)])

(* Mutant: structural inference from properties tried before composites.   *)
handleSingleType_PropertiesFirst(s) ==
    IF ~Has(s, "type")
    THEN IF Has(s, "properties") THEN parseObject(s)
         ELSE IF Has(s, "oneOf") \/ Has(s, "anyOf") \/ Has(s, "allOf")
         THEN parseCombinator(s)
         ELSE ZAny
    ELSE LET type == s["type"][2]
         IN CASE type = "string" -> parseString(s)
              [] type = "number" -> ZNumber(<<>>)
              [] type = "integer" -> ZNumber(<<"int">>)
              [] type = "boolean" -> ZBoolean
              [] type = "array" -> parseArray(s)
              [] type = "object" -> parseObject(s)
              [] OTHER -> parseCombinator(s)

handleSingleType(s) ==
    IF ~Has(s, "type")
    THEN IF Has(s, "oneOf") \/ Has(s, "anyOf") \/ Has(s, "allOf")
         THEN parseCombinator(s)
         ELSE IF Has(s, "properties") THEN parseObject(s)
         ELSE ZAny
    ELSE LET type == s["type"][2]
         IN CASE type = "string" -> parseString(s)
              [] type = "number" -> ZNumber(<<>>)
              [] type = "integer" -> ZNumber(<<"int">>)
              [] type = "boolean" -> ZBoolean
              [] type = "array" -> parseArray(s)
              [] type = "object" -> parseObject(s)
              [] OTHER -> parseCombinator(s)

(* Mutant: of an items sequence only the first member is compiled.         *)
parseArray_FirstItemOnly(s) ==
    IF ~Has(s, "items") THEN ErrArrayItems
    ELSE LET items == s["items"]
             itemSchema ==
                 IF items[1] = "many"
                 THEN IF items[2] = <<>> THEN UnionOf(<<>>) ELSE parseSchema(items[2][1])
                 ELSE parseSchema(items[2])
         IN ArrayOf(itemSchema)

(* Mutant: an array schema without items accepts arrays of anything.       *)
parseArray_Permissive(s) ==
    IF ~Has(s, "items") THEN ZArray(ZAny)
    ELSE LET items == s["items"]
             itemSchema ==
                 IF items[1] = "many"
                 THEN UnionOf([i \in 1..Len(items[2]) |-> parseSchema(items[2][i])])
                 ELSE parseSchema(items[2])
         IN ArrayOf(itemSchema)

parseArray(s) ==
    IF ~Has(s, "items") THEN ErrArrayItems
    ELSE LET items == s["items"]
             itemSchema ==
                 IF items[1] = "many"
                 THEN UnionOf([i \in 1..Len(items[2]) |-> parseSchema(items[2][i])])
                 ELSE parseSchema(items[2])
         IN ArrayOf(itemSchema)

(* Mutant: every name in required gets a shape entry, accept-any when the  *)
(* name has no entry in properties.                                        *)
parseObject_RequiredDeclares(s) ==
    LET required == IF Has(s, "required") THEN SeqToSet(s["required"]) ELSE {}
        properties == IF Has(s, "properties") THEN s["properties"] ELSE <<>>
        parsed == [i \in 1..Len(properties) |-> parseSchema(properties[i][2])]
        undeclared == SelectSeq(IF Has(s, "required") THEN Dedup(s["required"])
                                ELSE <<>>,
                                LAMBDA k : k \notin PropKeys(properties))
        shape == [i \in 1..Len(properties) |->
                    <<properties[i][1],
                      IF properties[i][1] \in required THEN parsed[i]
                      ELSE Optional(parsed[i])>>]
                 \o [i \in 1..Len(undeclared) |-> <<undeclared[i], ZAny>>]
        ap == IF Has(s, "additionalProperties") THEN s["additionalProperties"]
              ELSE <<"undefined">>
    IN IF HasError(parsed) THEN FirstError(parsed)
       ELSE IF ap = APBool(TRUE) THEN ZObject(shape, ZAny, "strip")
       ELSE IF ap[1] = "schema"
            THEN LET catchall == parseSchema(ap[2])
                 IN IF IsError(catchall) THEN catchall
                    ELSE ZObject(shape, catchall, "strip")
       ELSE ZObject(shape, ZNever, "strict")

(* Mutant: a schema-valued additionalProperties is not compiled; unknown   *)
(* keys are caught by accept-any.                                          *)
parseObject_UntypedCatchall(s) ==
    LET required == IF Has(s, "required") THEN SeqToSet(s["required"]) ELSE {}
        properties == IF Has(s, "properties") THEN s["properties"] ELSE <<>>
        parsed == [i \in 1..Len(properties) |-> parseSchema(properties[i][2])]
        shape == [i \in 1..Len(properties) |->
                    <<properties[i][1],
                      IF properties[i][1] \in required THEN parsed[i]
                      ELSE Optional(parsed[i])>>]
        ap == IF Has(s, "additionalProperties") THEN s["additionalProperties"]
              ELSE <<"undefined">>
    IN IF HasError(parsed) THEN FirstError(parsed)
       ELSE IF ap = APBool(TRUE) \/ ap[1] = "schema"
            THEN ZObject(shape, ZAny, "strip")
       ELSE ZObject(shape, ZNever, "strict")

parseObject(s) ==
    LET required == IF Has(s, "required") THEN SeqToSet(s["required"]) ELSE {}
        properties == IF Has(s, "properties") THEN s["properties"] ELSE <<>>
        parsed == [i \in 1..Len(properties) |-> parseSchema(properties[i][2])]
        shape == [i \in 1..Len(properties) |->
                    <<properties[i][1],
                      IF properties[i][1] \in required THEN parsed[i]
                      ELSE Optional(parsed[i])>>]
        ap == IF Has(s, "additionalProperties") THEN s["additionalProperties"]
              ELSE <<"undefined">>
    IN IF HasError(parsed) THEN FirstError(parsed)
       ELSE IF ap = APBool(TRUE) THEN ZObject(shape, ZAny, "strip")
       ELSE IF ap[1] = "schema"
            THEN LET catchall == parseSchema(ap[2])
                 IN IF IsError(catchall) THEN catchall
                    ELSE ZObject(shape, catchall, "strip")
       ELSE ZObject(shape, ZNever, "strict")

(* Mutant: an empty sequence does not count as the keyword being present   *)
(* (as in the older parseCombinator, where an empty oneOf or anyOf fell    *)
(* through to the next keyword).                                           *)
parseCombinator_SkipsEmpty(s) ==
    IF Has(s, "oneOf") /\ s["oneOf"] # <<>> THEN parseOneOf(s["oneOf"])
    ELSE IF Has(s, "anyOf") /\ s["anyOf"] # <<>> THEN parseAnyOf(s["anyOf"])
    ELSE IF Has(s, "allOf") THEN parseAllOf(s["allOf"])
    ELSE IF Has(s, "oneOf") \/ Has(s, "anyOf") THEN ZAny
    ELSE ErrUnsupported

(* Mutant: no composite keyword falls back to accept-any, not to a throw.  *)
parseCombinator_FallbackAny(s) ==
    IF Has(s, "oneOf") THEN parseOneOf(s["oneOf"])
    ELSE IF Has(s, "anyOf") THEN parseAnyOf(s["anyOf"])
    ELSE IF Has(s, "allOf") THEN parseAllOf(s["allOf"])
    ELSE ZAny

parseCombinator(s) ==
    IF Has(s, "oneOf") THEN parseOneOf(s["oneOf"])
    ELSE IF Has(s, "anyOf") THEN parseAnyOf(s["anyOf"])
    ELSE IF Has(s, "allOf") THEN parseAllOf(s["allOf"])
    ELSE ErrUnsupported

(* Mutant: oneOf special-cases a { type: 'null' } branch as anyOf does.     *)
parseOneOf_NullCase(schemas) ==
    IF Len(schemas) = 1 THEN parseSchema(schemas[1])
    ELSE IF Len(schemas) > 1
         THEN UnionOf([i \in 1..Len(schemas) |->
                         IF Has(schemas[i], "type")
                            /\ schemas[i]["type"] = Scalar("null")
                         THEN ZNull
                         ELSE parseSchema(schemas[i])])
    ELSE ZAny

(* Mutant: an empty oneOf is not given the accept-any fallback (as in the  *)
(* older parseCombinator, where it fell through to the final throw).       *)
parseOneOf_EmptyUnsupported(schemas) ==
    IF Len(schemas) = 1 THEN parseSchema(schemas[1])
    ELSE IF Len(schemas) > 1
         THEN UnionOf([i \in 1..Len(schemas) |-> parseSchema(schemas[i])])
    ELSE ErrUnsupported

parseOneOf(schemas) ==
    IF Len(schemas) = 1 THEN parseSchema(schemas[1])
    ELSE IF Len(schemas) > 1
         THEN UnionOf([i \in 1..Len(schemas) |-> parseSchema(schemas[i])])
    ELSE ZAny

(* Mutant: a { type: 'null' } branch is compiled like any other branch.    *)
parseAnyOf_NoNullCase(schemas) ==
    IF Len(schemas) = 1 THEN parseSchema(schemas[1])
    ELSE IF Len(schemas) > 1
         THEN UnionOf([i \in 1..Len(schemas) |-> parseSchema(schemas[i])])
    ELSE ZAny

parseAnyOf(schemas) ==
    IF Len(schemas) = 1 THEN parseSchema(schemas[1])
    ELSE IF Len(schemas) > 1
         THEN UnionOf([i \in 1..Len(schemas) |->
                         IF Has(schemas[i], "type")
                            /\ schemas[i]["type"] = Scalar("null")
                         THEN ZNull
                         ELSE parseSchema(schemas[i])])
    ELSE ZAny

(* Mutant: a plain spread; properties and required of the later node       *)
(* replace the earlier ones.                                               *)
mergeSchemas_SpreadOnly(baseSchema, addSchema) == addSchema @@ baseSchema

mergeSchemas(baseSchema, addSchema) ==
    LET merged == addSchema @@ baseSchema
        merged1 ==
            IF Has(baseSchema, "properties") /\ Has(addSchema, "properties")
            THEN ("properties" :> SpreadProps(baseSchema["properties"],
                                              addSchema["properties"])) @@ merged
            ELSE merged
    IN IF Has(baseSchema, "required") /\ Has(addSchema, "required")
       THEN ("required" :> Dedup(baseSchema["required"] \o addSchema["required"]))
            @@ merged1
       ELSE merged1

(* schemas.slice(1).reduce(mergeSchemas, schemas[0])                       *)
RECURSIVE reduceMerge(_, _)
reduceMerge(acc, rest) ==
    IF rest = <<>> THEN acc
    ELSE reduceMerge(mergeSchemas(acc, Head(rest)), Tail(rest))

parseAllOf(schemas) ==
    IF Len(schemas) = 0 THEN ZAny
    ELSE parseSchema(reduceMerge(schemas[1], Tail(schemas)))

convert(s) == parseSchema(s)

-----------------------------------------------------------------------------
(* Assignments made during convert, and the objects they are made on.      *)
(* A schema node is a JavaScript object with an identity: Allocate gives   *)
(* every node of the input tree its own identity (the path that leads to   *)
(* it) under the pseudo-key "$ref"; an object literal or a spread builds a *)
(* new object (New), whose nested nodes are still the ones of the object   *)
(* it was spread from (a spread copies one level).  The ...Writes          *)
(* operators follow the control flow of the compiler and list, in          *)
(* execution order, every property assignment whose target is an object of *)
(* the input; a throw ends the list at the call that threw.                *)

Fresh == <<"fresh">>
Ref(n) == n["$ref"]
New(n) == ("$ref" :> Fresh) @@ n

RECURSIVE Allocate(_, _)
Allocate(s, path) ==
    ("$ref" :> path) @@
    [k \in DOMAIN s |->
        CASE k = "properties" ->
                [i \in 1..Len(s[k]) |->
                    <<s[k][i][1], Allocate(s[k][i][2], path \o <<k, i>>)>>]
          [] k \in {"oneOf", "anyOf", "allOf"} ->
                [i \in 1..Len(s[k]) |-> Allocate(s[k][i], path \o <<k, i>>)]
          [] k = "items" ->
                IF s[k][1] = "many"
                THEN ManyItems([i \in 1..Len(s[k][2]) |->
                                   Allocate(s[k][2][i], path \o <<k, i>>)])
                ELSE OneItem(Allocate(s[k][2], path \o <<k, 1>>))
          [] k = "additionalProperties" ->
                IF s[k][1] = "schema"
                THEN APSchema(Allocate(s[k][2], path \o <<k, 1>>))
                ELSE s[k]
          [] k \in {"if", "then", "else"} -> Allocate(s[k], path \o <<k, 1>>)
          [] OTHER -> s[k]]

(* target[key] = val: recorded when target is an object of the input.      *)
Write(target, key, val) ==
    IF Ref(target) = Fresh THEN <<>>
    ELSE <<[ref |-> Ref(target), key |-> key, val |-> val]>>

(* xs.map(x => call(x)): the writes of the calls made, the one that threw  *)
(* included; zs are the results of the calls, ws their writes.             *)
RECURSIVE MapWrites(_, _)
MapWrites(zs, ws) ==
    IF zs = <<>> THEN <<>>
    ELSE IF IsError(Head(zs)) THEN Head(ws)
    ELSE Head(ws) \o MapWrites(Tail(zs), Tail(ws))

RECURSIVE parseSchemaWrites(_)
RECURSIVE handleNullableTypeWrites(_)
RECURSIVE createUnionFromTypesWrites(_, _)
RECURSIVE handleSingleTypeWrites(_)
RECURSIVE parseArrayWrites(_)
RECURSIVE parseObjectWrites(_)
RECURSIVE parseCombinatorWrites(_)
RECURSIVE parseOneOfWrites(_)
RECURSIVE parseAnyOfWrites(_)
RECURSIVE parseAllOfWrites(_)

handleTypeArrayWrites(n) ==
    IF \E i \in 1..Len(n["type"][2]) : n["type"][2][i] = "null"
    THEN handleNullableTypeWrites(n)
    ELSE createUnionFromTypesWrites(n["type"][2], n)

parseSchemaWrites(n) ==
    IF IsTypeArray(n) THEN handleTypeArrayWrites(n) ELSE handleSingleTypeWrites(n)

(* Mutant: const nonNullSchema = schema; the two assignments to            *)
(* nonNullSchema.type land on the caller's node.                           *)
handleNullableTypeWrites_NoCopy(n) ==
    LET rest == SelectSeq(n["type"][2], LAMBDA t : t # "null")
        nonNullSchema == n
        filtered == ("type" :> TypeArray(rest)) @@ nonNullSchema
        single == ("type" :> Scalar(rest[1])) @@ nonNullSchema
    IN Write(nonNullSchema, "type", TypeArray(rest))
       \o (IF Len(rest) = 1
           THEN Write(filtered, "type", Scalar(rest[1])) \o parseSchemaWrites(single)
           ELSE parseSchemaWrites(filtered))

handleNullableTypeWrites(n) ==
    LET rest == SelectSeq(n["type"][2], LAMBDA t : t # "null")
        nonNullSchema == New(n)
        filtered == ("type" :> TypeArray(rest)) @@ nonNullSchema
        single == ("type" :> Scalar(rest[1])) @@ nonNullSchema
    IN Write(nonNullSchema, "type", TypeArray(rest))
       \o (IF Len(rest) = 1
           THEN Write(filtered, "type", Scalar(rest[1])) \o parseSchemaWrites(single)
           ELSE parseSchemaWrites(filtered))

createUnionFromTypesWrites(types, baseSchema) ==
    LET singleTypeSchema(i) == New(("type" :> Scalar(types[i])) @@ baseSchema)
    IN MapWrites([i \in 1..Len(types) |-> parseSchema(singleTypeSchema(i))],
                 [i \in 1..Len(types) |-> parseSchemaWrites(singleTypeSchema(i))])

handleSingleTypeWrites(n) ==
    IF ~Has(n, "type")
    THEN IF Has(n, "oneOf") \/ Has(n, "anyOf") \/ Has(n, "allOf")
         THEN parseCombinatorWrites(n)
         ELSE IF Has(n, "properties") THEN parseObjectWrites(n)
         ELSE <<>>
    ELSE LET type == n["type"][2]
         IN CASE type \in {"string", "number", "integer", "boolean"} -> <<>>
              [] type = "array" -> parseArrayWrites(n)
              [] type = "object" -> parseObjectWrites(n)
              [] OTHER -> parseCombinatorWrites(n)

parseArrayWrites(n) ==
    IF ~Has(n, "items") THEN <<>>
    ELSE LET items == n["items"]
         IN IF items[1] = "many"
            THEN MapWrites([i \in 1..Len(items[2]) |-> parseSchema(items[2][i])],
                           [i \in 1..Len(items[2]) |-> parseSchemaWrites(items[2][i])])
            ELSE parseSchemaWrites(items[2])

(* shape[key] = ... assigns to the local object shape, never to the input. *)
parseObjectWrites(n) ==
    LET properties == IF Has(n, "properties") THEN n["properties"] ELSE <<>>
        parsed == [i \in 1..Len(properties) |-> parseSchema(properties[i][2])]
        ap == IF Has(n, "additionalProperties") THEN n["additionalProperties"]
              ELSE <<"undefined">>
    IN MapWrites(parsed,
                 [i \in 1..Len(properties) |-> parseSchemaWrites(properties[i][2])])
       \o (IF ~HasError(parsed) /\ ap[1] = "schema"
           THEN parseSchemaWrites(ap[2]) ELSE <<>>)

parseCombinatorWrites(n) ==
    IF Has(n, "oneOf") THEN parseOneOfWrites(n["oneOf"])
    ELSE IF Has(n, "anyOf") THEN parseAnyOfWrites(n["anyOf"])
    ELSE IF Has(n, "allOf") THEN parseAllOfWrites(n["allOf"])
    ELSE <<>>

parseOneOfWrites(schemas) ==
    IF Len(schemas) = 1 THEN parseSchemaWrites(schemas[1])
    ELSE MapWrites([i \in 1..Len(schemas) |-> parseSchema(schemas[i])],
                   [i \in 1..Len(schemas) |-> parseSchemaWrites(schemas[i])])

(* zodSchemas.push(...) appends to the local array zodSchemas.             *)
parseAnyOfWrites(schemas) ==
    LET isNull(i) == Has(schemas[i], "type") /\ schemas[i]["type"] = Scalar("null")
    IN IF Len(schemas) = 1 THEN parseSchemaWrites(schemas[1])
       ELSE MapWrites([i \in 1..Len(schemas) |->
                          IF isNull(i) THEN ZNull ELSE parseSchema(schemas[i])],
                      [i \in 1..Len(schemas) |->
                          IF isNull(i) THEN <<>> ELSE parseSchemaWrites(schemas[i])])

(* const merged = { ...baseSchema, ...addSchema }; merged.properties = ...;*)
(* merged.required = ...                                                   *)
mergeSchemasNew(baseSchema, addSchema) == New(mergeSchemas(baseSchema, addSchema))

mergeSchemasWrites(baseSchema, addSchema) ==
    LET merged == New(addSchema @@ baseSchema)
    IN (IF Has(baseSchema, "properties") /\ Has(addSchema, "properties")
        THEN Write(merged, "properties",
                   SpreadProps(baseSchema["properties"], addSchema["properties"]))
        ELSE <<>>)
       \o (IF Has(baseSchema, "required") /\ Has(addSchema, "required")
           THEN Write(merged, "required",
                      Dedup(baseSchema["required"] \o addSchema["required"]))
           ELSE <<>>)

(* reduce: acc starts as schemas[0] itself and is a new object after the   *)
(* first step.                                                             *)
RECURSIVE reduceMergeNew(_, _)
reduceMergeNew(acc, rest) ==
    IF rest = <<>> THEN acc
    ELSE reduceMergeNew(mergeSchemasNew(acc, Head(rest)), Tail(rest))

RECURSIVE reduceMergeWrites(_, _)
reduceMergeWrites(acc, rest) ==
    IF rest = <<>> THEN <<>>
    ELSE mergeSchemasWrites(acc, Head(rest))
         \o reduceMergeWrites(mergeSchemasNew(acc, Head(rest)), Tail(rest))

parseAllOfWrites(schemas) ==
    IF Len(schemas) = 0 THEN <<>>
    ELSE reduceMergeWrites(schemas[1], Tail(schemas))
         \o parseSchemaWrites(reduceMergeNew(schemas[1], Tail(schemas)))

convertWrites(n) == parseSchemaWrites(n)

(* The tree under node n once the assignments ws have been made.           *)
RECURSIVE Store(_, _)
Store(n, ws) ==
    LET mine == SelectSeq(ws, LAMBDA w : w.ref = Ref(n))
        written == {mine[i].key : i \in 1..Len(mine)}
        last(k) == mine[CHOOSE i \in 1..Len(mine) :
                           mine[i].key = k
                           /\ \A j \in (i + 1)..Len(mine) : mine[j].key # k].val
        at(k) == IF k \in written THEN last(k) ELSE n[k]
    IN [k \in (DOMAIN n \ {"$ref"}) \cup written |->
        CASE k = "properties" ->
                [i \in 1..Len(at(k)) |-> <<at(k)[i][1], Store(at(k)[i][2], ws)>>]
          [] k \in {"oneOf", "anyOf", "allOf"} ->
                [i \in 1..Len(at(k)) |-> Store(at(k)[i], ws)]
          [] k = "items" ->
                IF at(k)[1] = "many"
                THEN ManyItems([i \in 1..Len(at(k)[2]) |-> Store(at(k)[2][i], ws)])
                ELSE OneItem(Store(at(k)[2], ws))
          [] k = "additionalProperties" ->
                IF at(k)[1] = "schema" THEN APSchema(Store(at(k)[2], ws)) ELSE at(k)
          [] k \in {"if", "then", "else"} -> Store(at(k), ws)
          [] OTHER -> at(k)]

(* The caller's schema tree after convert(schema) returned or threw.       *)
InputAfter(s) == Store(Allocate(s, <<>>), convertWrites(Allocate(s, <<>>)))

-----------------------------------------------------------------------------
(* The recursion of the compiler, one parseSchema invocation at a time.    *)
(* ...Calls(n) lists, in call order, the nodes on which the invocation on  *)
(* n calls this.parseSchema, through whichever methods it runs.  Every     *)
(* throw of the class comes before any recursive call of its invocation.   *)

(* Mutant: the copy keeps the whole type array, the null tag included.     *)
handleNullableTypeCalls_KeepsNull(n) == <<n>>

handleNullableTypeCalls(n) ==
    LET rest == SelectSeq(n["type"][2], LAMBDA t : t # "null")
    IN <<("type" :> (IF Len(rest) = 1 THEN Scalar(rest[1]) ELSE TypeArray(rest)))
         @@ n>>

createUnionFromTypesCalls(types, baseSchema) ==
    [i \in 1..Len(types) |-> ("type" :> Scalar(types[i])) @@ baseSchema]

parseArrayCalls(n) ==
    IF ~Has(n, "items") THEN <<>>
    ELSE IF n["items"][1] = "many" THEN n["items"][2] ELSE <<n["items"][2]>>

parseObjectCalls(n) ==
    LET properties == IF Has(n, "properties") THEN n["properties"] ELSE <<>>
        ap == IF Has(n, "additionalProperties") THEN n["additionalProperties"]
              ELSE <<"undefined">>
    IN [i \in 1..Len(properties) |-> properties[i][2]]
       \o (IF ap[1] = "schema" THEN <<ap[2]>> ELSE <<>>)

parseOneOfCalls(schemas) == schemas

parseAnyOfCalls(schemas) ==
    IF Len(schemas) = 1 THEN schemas
    ELSE SelectSeq(schemas,
                   LAMBDA b : ~(Has(b, "type") /\ b["type"] = Scalar("null")))

parseAllOfCalls(schemas) ==
    IF Len(schemas) = 0 THEN <<>>
    ELSE <<reduceMerge(schemas[1], Tail(schemas))>>

parseCombinatorCalls(n) ==
    IF Has(n, "oneOf") THEN parseOneOfCalls(n["oneOf"])
    ELSE IF Has(n, "anyOf") THEN parseAnyOfCalls(n["anyOf"])
    ELSE IF Has(n, "allOf") THEN parseAllOfCalls(n["allOf"])
    ELSE <<>>

handleSingleTypeCalls(n) ==
    IF ~Has(n, "type")
    THEN IF Has(n, "oneOf") \/ Has(n, "anyOf") \/ Has(n, "allOf")
         THEN parseCombinatorCalls(n)
         ELSE IF Has(n, "properties") THEN parseObjectCalls(n)
         ELSE <<>>
    ELSE LET type == n["type"][2]
         IN CASE type \in {"string", "number", "integer", "boolean"} -> <<>>
              [] type = "array" -> parseArrayCalls(n)
              [] type = "object" -> parseObjectCalls(n)
              [] OTHER -> parseCombinatorCalls(n)

handleTypeArrayCalls(n) ==
    IF \E i \in 1..Len(n["type"][2]) : n["type"][2][i] = "null"
    THEN handleNullableTypeCalls(n)
    ELSE createUnionFromTypesCalls(n["type"][2], n)

parseSchemaCalls(n) ==
    IF IsTypeArray(n) THEN handleTypeArrayCalls(n) ELSE handleSingleTypeCalls(n)

(* The invocation on n throws by itself: array without items, or no        *)
(* composite keyword on a node that needs one.                             *)
Throws(n) ==
    /\ ~IsTypeArray(n)
    /\ \/ Has(n, "type") /\ n["type"][2] = "array" /\ ~Has(n, "items")
       \/ /\ Has(n, "type") /\ n["type"][2] \notin
                {"string", "number", "integer", "boolean", "array", "object"}
          /\ ~(Has(n, "oneOf") \/ Has(n, "anyOf") \/ Has(n, "allOf"))

-----------------------------------------------------------------------------
(* The validator runtime (zod 3): what a built validator does to a value.  *)
(* A parse result is [ok |-> accepted, out |-> the validated output].      *)
(* The library is not part of the repository; safeParse follows its        *)
(* documented behaviour:                                                   *)
(*   - ZodAny accepts every input, undefined included;                     *)
(*   - ZodObject parses each shape key with data[key], which is undefined  *)
(*     for an absent key, and rejects anything that is not a plain object; *)
(*   - with a catchall other than ZodNever every unknown key is parsed by  *)
(*     the catchall and kept in the output ("using .catchall() obviates    *)
(*     .passthrough(), .strip(), or .strict()"); only with the default     *)
(*     ZodNever catchall does unknownKeys decide (strict rejects, strip    *)
(*     drops);                                                             *)
(*   - ZodUnion returns the first option that is valid and fails when none *)
(*     is, for any number of options;                                      *)
(*   - a refinement (ZodEffects) is valid only when its inner validator is *)
(*     and the predicate holds.                                            *)

EmailStr == "test@example.com"
DateTimeStr == "2020-01-01T00:00:00Z"
UrlStr == "https://example.com"
UuidStr == "123e4567-e89b-12d3-a456-426614174000"
DateStr == "2020-01-01"

(* The string checks, on the strings of the model: each of the five sample *)
(* strings satisfies its own check and no other; no other string of the    *)
(* model satisfies any.                                                    *)
StringCheck(check, s) ==
    CASE check = "email" -> s = EmailStr
      [] check = "datetime" -> s = DateTimeStr
      [] check = "url" -> s = UrlStr
      [] check = "uuid" -> s = UuidStr
      [] check = "date" -> s = DateStr
      [] OTHER -> FALSE

Ok(v) == [ok |-> TRUE, out |-> v]
Invalid == [ok |-> FALSE, out |-> Undefined]

(* Array.prototype.includes                                                *)
Includes(xs, v) == \E i \in 1..Len(xs) : xs[i] = v

RECURSIVE safeParse(_, _)
safeParse(z, v) ==
    CASE z.kind = "any" -> Ok(v)
      [] z.kind = "never" -> Invalid
      [] z.kind = "null" -> IF v[1] = "null" THEN Ok(v) ELSE Invalid
      [] z.kind = "boolean" -> IF v[1] = "boolean" THEN Ok(v) ELSE Invalid
      [] z.kind = "number" ->
            IF v[1] = "number" /\ (Includes(z.checks, "int") => v[3] = 0)
            THEN Ok(v) ELSE Invalid
      [] z.kind = "string" ->
            IF v[1] = "string"
               /\ \A i \in 1..Len(z.checks) : StringCheck(z.checks[i], v[2])
            THEN Ok(v) ELSE Invalid
      [] z.kind = "effects" ->
            LET inner == safeParse(z.inner, v)
            IN IF inner.ok /\ Includes(z.enum, inner.out) THEN inner ELSE Invalid
      [] z.kind = "nullable" ->
            IF v[1] = "null" THEN Ok(Null) ELSE safeParse(z.inner, v)
      [] z.kind = "optional" ->
            IF v[1] = "undefined" THEN Ok(Undefined) ELSE safeParse(z.inner, v)
      [] z.kind = "array" ->
            IF v[1] # "array" THEN Invalid
            ELSE LET rs == [i \in 1..Len(v[2]) |-> safeParse(z.element, v[2][i])]
                 IN IF \A i \in 1..Len(rs) : rs[i].ok
                    THEN Ok(Arr([i \in 1..Len(rs) |-> rs[i].out]))
                    ELSE Invalid
      [] z.kind = "union" ->
            LET rs == [i \in 1..Len(z.options) |-> safeParse(z.options[i], v)]
            IN IF \E i \in 1..Len(rs) : rs[i].ok
               THEN rs[CHOOSE i \in 1..Len(rs) :
                          rs[i].ok /\ \A j \in 1..(i - 1) : ~rs[j].ok]
               ELSE Invalid
      [] z.kind = "object" ->
            IF v[1] # "object" THEN Invalid
            ELSE LET data == v[2]
                     shapeKeys == PropKeys(z.shape)
                     extraKeys == DOMAIN data \ shapeKeys
                     at(k) == IF k \in DOMAIN data THEN data[k] ELSE Undefined
                     known == [k \in shapeKeys |->
                                  safeParse(PropGet(z.shape, k), at(k))]
                     extra == [k \in extraKeys |-> safeParse(z.catchall, data[k])]
                     (* a never catchall leaves the unknown keys to the    *)
                     (* unknownKeys policy; any other catchall parses each *)
                     (* unknown key and keeps it, whatever the policy says *)
                     caught == z.catchall.kind # "never"
                     set == {k \in shapeKeys :
                                known[k].out # Undefined \/ k \in DOMAIN data}
                            \cup (IF caught THEN extraKeys ELSE {})
                 IN IF (\A k \in shapeKeys : known[k].ok)
                       /\ (caught => \A k \in extraKeys : extra[k].ok)
                       /\ (~caught /\ z.unknownKeys = "strict" => extraKeys = {})
                    THEN Ok(Obj([k \in set |->
                                   IF k \in shapeKeys THEN known[k].out
                                   ELSE extra[k].out]))
                    ELSE Invalid

-----------------------------------------------------------------------------
(* Inputs                                                                  *)

MaxBranches == 2

RECURSIVE SeqsUpTo(_, _)
SeqsUpTo(S, n) ==
    IF n = 0 THEN {<<>>}
    ELSE LET shorter == SeqsUpTo(S, n - 1)
         IN shorter \cup {Append(q, x) : q \in shorter, x \in S}

T(tag) == "type" :> Scalar(tag)

(* Every subset of the optional keywords: Opt(k, Vs) is "k absent or k one *)
(* of Vs", and Nodes(A, B) every spread of a node of A with a node of B    *)
(* (the two carry different keywords).                                     *)
Opt(k, Vs) == {EmptySchema} \cup {k :> v : v \in Vs}
Nodes(A, B) == {a @@ b : a \in A, b \in B}

SixTags == {"string", "number", "integer", "boolean", "array", "object"}
Composites == {"oneOf", "anyOf", "allOf"}
HasComposite(s) == \E k \in Composites : Has(s, k)

Alice == Str("Alice")
Charlie == Str("Charlie")
Thirty == Num(30, 0)

ObjectValues ==
    {Obj(o) : o \in UNION {[K -> {Alice, Thirty}] : K \in SUBSET {"name", "age"}}}

(* The values of the conditional tests: a minor or an adult, with or       *)
(* without a driving license.                                              *)
Adult == Num(21, 0)
Minor == Num(16, 0)
License == Str("ABC123")

ConditionalValues ==
    {Obj(o) : o \in UNION {[K -> {Adult, Minor, License}] :
                              K \in SUBSET {"age", "drivingLicense"}}}

(* Arrays whose elements are of different kinds, in both orders.           *)
ArrayValues ==
    {Arr(<<Thirty, Alice>>), Arr(<<Thirty, Num(1, 5)>>), Arr(<<Alice, Bool(TRUE)>>),
     Arr(<<Arr(<<Alice>>), Alice>>)}

Values ==
    {Alice, Charlie, Str(EmailStr), Str(DateTimeStr), Str(UrlStr), Str(UuidStr),
     Str(DateStr), Thirty, Num(1, 5), Bool(TRUE), Null,
     Arr(<<>>), Arr(<<Alice>>), Arr(<<Alice, Thirty>>)}
    \cup ObjectValues \cup ConditionalValues \cup ArrayValues

(* Typeless and unknown-tag nodes: one composite keyword with every branch *)
(* sequence up to MaxBranches, or several composite keywords at once, each *)
(* with or without a sibling properties.                                   *)
BranchNodes == {T("string"), T("number"), T("null")}
FewBranches == {<<>>, <<T("string")>>, <<T("number"), T("string")>>}
SiblingProperties == {<<>>, <<<<"name", T("string")>>>>}

DispatchSchemas ==
    LET one == UNION {{k :> q : q \in SeqsUpTo(BranchNodes, MaxBranches)} :
                         k \in Composites}
        several == {s \in Nodes(Opt("oneOf", FewBranches),
                             Nodes(Opt("anyOf", FewBranches),
                                   Opt("allOf", FewBranches))) :
                        Cardinality(DOMAIN s) >= 2}
        composite == {EmptySchema} \cup one \cup several
        tags == {EmptySchema, T("null"), T("unsupportedType")}
    IN Nodes(tags, Nodes(composite, Opt("properties", SiblingProperties)))

(* Trees: a node placed under every keyword that can hold a child, two     *)
(* levels deep; the innermost node is an array schema without items, one   *)
(* with items, or a string schema.                                         *)
ArrayNoItems == T("array")
StringItems == "items" :> OneItem(T("string"))
Name(c) == "properties" :> <<<<"name", c>>>>

Wrap(c) ==
    {T("object") @@ Name(c),
     Name(c),
     T("object") @@ Name(T("string")) @@ ("additionalProperties" :> APSchema(c)),
     T("array") @@ ("items" :> OneItem(c)),
     T("array") @@ ("items" :> ManyItems(<<T("string"), c>>)),
     ("type" :> TypeArray(<<"object", "null">>)) @@ Name(c),
     T("string") @@ Name(c),
     T("number") @@ ("items" :> OneItem(c)),
     ("oneOf" :> <<T("string")>>) @@ Name(c),
     ("oneOf" :> <<>>) @@ ("anyOf" :> <<c>>)}
    \cup UNION {{k :> <<c>>, k :> <<T("string"), c>>, k :> <<c, T("string")>>} :
                   k \in Composites}
    \cup {"allOf" :> <<c, StringItems>>}

TreeSchemas ==
    LET inner == {ArrayNoItems, T("array") @@ StringItems, T("string")}
        once == UNION {Wrap(c) : c \in inner}
    IN inner \cup once \cup UNION {Wrap(c) : c \in once}

(* Object schemas, typed and typeless: up to two declared properties, a    *)
(* required list and every form of additionalProperties.                   *)
PropertyNodes == {T("string"), T("number"), EmptySchema}

ObjectSchemas ==
    LET properties ==
            {<<>>}
            \cup {<<<<"name", c>>>> : c \in PropertyNodes}
            \cup {<<<<"name", c>>, <<"age", d>>>> : c, d \in PropertyNodes}
        required == {<<"name">>, <<"age">>, <<"name", "age">>}
        additional == {APBool(FALSE), APBool(TRUE), APSchema(T("number")),
                       APSchema(T("string")), APSchema(EmptySchema)}
    IN Nodes({EmptySchema, T("object")},
             Nodes(Opt("properties", properties),
                   Nodes(Opt("required", required),
                         Opt("additionalProperties", additional))))

(* Type arrays: every tag sequence up to MaxTags over four tags, every     *)
(* [T, null] and [null, T], and each nullable pair's anyOf spelling, all   *)
(* carrying one of a few keyword sets.                                     *)
MaxTags == 3

CarriedKeywords ==
    {EmptySchema,
     "format" :> "email",
     "enum" :> <<Alice, Str(EmailStr)>>,
     ("format" :> "email") @@ ("enum" :> <<Alice, Str(EmailStr)>>),
     StringItems,
     Name(T("string")) @@ ("required" :> <<"name">>)}

AnyOfNull(tag, keywords) == "anyOf" :> <<T(tag) @@ keywords, T("null")>>

TypeArraySchemas ==
    LET tags == SeqsUpTo({"string", "number", "array", "null"}, MaxTags)
                \cup UNION {{<<x, "null">>, <<"null", x>>} :
                               x \in SixTags \cup {"unsupportedType"}}
    IN Nodes({"type" :> TypeArray(q) : q \in tags}, CarriedKeywords)
       \cup {AnyOfNull(x, k) : x \in SixTags, k \in CarriedKeywords}

(* allOf: every sequence up to MaxBranches of branches that overlap in     *)
(* properties, required and format.                                        *)
NameBranch ==
    T("object") @@ Name(T("string")) @@ ("required" :> <<"name">>)
AgeBranch ==
    T("object") @@ ("properties" :> <<<<"age", T("number")>>>>)
    @@ ("required" :> <<"age">>)

AllOfBranches ==
    {NameBranch, AgeBranch,
     Name(T("number")),
     T("string") @@ ("format" :> "email"),
     ("format" :> "uuid") @@ ("required" :> <<"age", "name">>),
     EmptySchema}

AllOfSchemas == {"allOf" :> q : q \in SeqsUpTo(AllOfBranches, MaxBranches)}

(* String schemas: every format the builder knows, one it does not, and    *)
(* enum lists with and without members that fail the format.               *)
Formats == {"email", "date-time", "uri", "uuid", "date"}

StringSchemas ==
    LET enums == {<<>>, <<Alice, Str("Bob")>>, <<Thirty, Alice>>,
                  <<Alice, Str(EmailStr), Str(DateTimeStr), Str(UrlStr),
                    Str(UuidStr), Str(DateStr)>>}
    IN Nodes({T("string")},
             Nodes(Opt("format", Formats \cup {"hostname"}), Opt("enum", enums)))

(* Object schemas with if/then and an optional else, as in the conditional *)
(* tests: the keywords ride on the node through JSONSchema's index         *)
(* signature.                                                              *)
PersonSchema ==
    T("object") @@ ("properties" :> <<<<"age", T("number")>>,
                                       <<"drivingLicense", T("string")>>>>)

ConditionalSchemas ==
    LET conditions == {"properties" :> <<<<"age", "minimum" :> Num(18, 0)>>>>,
                       "properties" :> <<<<"age", "const" :> Minor>>>>,
                       "required" :> <<"age">>}
        consequences == {"required" :> <<"drivingLicense">>,
                         "required" :> <<"age">>}
    IN Nodes({PersonSchema},
             Nodes({"if" :> c : c \in conditions},
                   Nodes({"then" :> c : c \in consequences},
                         Opt("else", consequences))))

(* Typeless oneOf nodes: every branch sequence up to MaxBranches + 1 over  *)
(* branches that overlap (number and integer, the empty schema), that are  *)
(* disjoint, and one that does not compile.                                *)
OneOfBranches ==
    {T("string"), T("number"), T("integer"), NameBranch, EmptySchema, T("null")}

OneOfSchemas == {"oneOf" :> q : q \in SeqsUpTo(OneOfBranches, MaxBranches + 1)}

(* Array schemas: items a single schema, or every sequence up to           *)
(* MaxBranches + 1 of member schemas.                                      *)
ItemNodes == {T("string"), T("number"), T("integer"), T("array") @@ StringItems}

ArraySchemas ==
    {T("array") @@ ("items" :> OneItem(c)) : c \in ItemNodes}
    \cup {T("array") @@ ("items" :> ManyItems(q)) :
             q \in SeqsUpTo(ItemNodes, MaxBranches + 1)}

(* allOf nodes whose branches carry composite keywords and type arrays of  *)
(* their own, so that the merge result is compiled recursively.            *)
CompositeBranches ==
    {"allOf" :> <<NameBranch, AgeBranch>>,
     "allOf" :> <<"allOf" :> <<T("string")>>>>,
     "oneOf" :> <<T("string"), "type" :> TypeArray(<<"number", "null">>)>>,
     "anyOf" :> <<T("null"), T("number")>>,
     ("type" :> TypeArray(<<"object", "null">>)) @@ Name("allOf" :> <<T("array")>>),
     NameBranch}

NestedAllOfSchemas ==
    {"allOf" :> q : q \in SeqsUpTo(CompositeBranches, MaxBranches)}

(* number, integer and boolean schemas with and without an enum list.      *)
PrimitiveSchemas ==
    Nodes({T("number"), T("integer"), T("boolean")},
          Opt("enum", {<<>>, <<Thirty>>, <<Num(1, 5), Thirty>>, <<Bool(TRUE)>>,
                       <<Alice, Adult>>}))

(* Typeless nodes carrying two or three composite keywords at once, each   *)
(* with an empty sequence, branches that compile, or a branch that throws. *)
PrecedenceBranches ==
    {<<>>, <<T("string")>>, <<T("number"), T("string")>>, <<ArrayNoItems>>,
     <<T("null"), T("number")>>}

PrecedenceSchemas ==
    {s \in Nodes(Opt("oneOf", PrecedenceBranches),
                 Nodes(Opt("anyOf", PrecedenceBranches),
                       Opt("allOf", PrecedenceBranches))) :
        Cardinality(DOMAIN s) >= 2}

(* oneOf and anyOf over the same branch sequences, up to MaxBranches + 1:  *)
(* branches that compile, the branch { type: 'null' }, a branch that       *)
(* throws for a reason of its own, and a branch of type 'null' that        *)
(* carries a composite keyword.                                            *)
NullBranchNodes ==
    {T("string"), T("number"), T("null"), ArrayNoItems,
     T("null") @@ ("oneOf" :> <<"type" :> TypeArray(<<"null">>)>>)}

NullBranchSchemas ==
    {k :> q : k \in {"oneOf", "anyOf"},
              q \in SeqsUpTo(NullBranchNodes, MaxBranches + 1)}

(* Trees whose nodes go through the copying paths: type arrays with and    *)
(* without null (alone, nested under every keyword that holds a child, and *)
(* as allOf branches), and allOf branches that overlap.                    *)
TypeArrayNodes ==
    {"type" :> TypeArray(<<"string", "null">>),
     ("type" :> TypeArray(<<"null", "array">>)) @@ ("required" :> <<"name">>),
     "type" :> TypeArray(<<"string", "number">>),
     ("type" :> TypeArray(<<"object", "null">>))
         @@ Name("type" :> TypeArray(<<"number", "null">>))
         @@ ("required" :> <<"name">>)}

FrameSchemas ==
    TypeArraySchemas \cup AllOfSchemas
    \cup UNION {Wrap(c) : c \in TypeArrayNodes}
    \cup {"allOf" :> q :
             q \in SeqsUpTo(TypeArrayNodes \cup {NameBranch, AgeBranch}, MaxBranches)}

RecursionSchemas == TreeSchemas \cup FrameSchemas \cup NestedAllOfSchemas

Schemas ==
    DispatchSchemas \cup TreeSchemas \cup ObjectSchemas \cup TypeArraySchemas
    \cup AllOfSchemas \cup StringSchemas \cup ConditionalSchemas
    \cup FrameSchemas \cup OneOfSchemas \cup ArraySchemas \cup NestedAllOfSchemas
    \cup PrimitiveSchemas \cup PrecedenceSchemas \cup NullBranchSchemas

-----------------------------------------------------------------------------
(* The program: convert(schema), then validator.safeParse(value)           *)

NoValidator == [kind |-> "none"]

InitWith(S) ==
    /\ schema \in S
    /\ zodSchema = NoValidator
    /\ value = Undefined
    /\ result = Invalid
    /\ pc = "start"
    /\ pending = <<>>

Convert ==
    /\ pc = "start"
    /\ zodSchema' = convert(schema)
    /\ pc' = IF IsError(convert(schema)) THEN "threw" ELSE "converted"
    /\ schema' = InputAfter(schema)
    /\ UNCHANGED <<value, result, pending>>

Validate ==
    /\ pc = "converted"
    /\ \E v \in Values :
          /\ value' = v
          /\ result' = safeParse(zodSchema, v)
    /\ pc' = "validated"
    /\ UNCHANGED <<schema, zodSchema, pending>>

Next == Convert \/ Validate

Init == InitWith(Schemas)
InitDispatch == InitWith(DispatchSchemas)

Spec == Init /\ [][Next]_vars
SpecDispatch == InitDispatch /\ [][Next]_vars

InitObject == InitWith(ObjectSchemas)
SpecObject == InitObject /\ [][Next]_vars

InitTypeArray == InitWith(TypeArraySchemas)
SpecTypeArray == InitTypeArray /\ [][Next]_vars

InitAllOf == InitWith(AllOfSchemas)
SpecAllOf == InitAllOf /\ [][Next]_vars

InitString == InitWith(StringSchemas)
SpecString == InitString /\ [][Next]_vars

InitTree == InitWith(TreeSchemas)
SpecTree == InitTree /\ [][Next]_vars

InitConditional == InitWith(ConditionalSchemas)
SpecConditional == InitConditional /\ [][Next]_vars

InitFrame == InitWith(FrameSchemas)
SpecFrame == InitFrame /\ [][Next]_vars

InitOneOf == InitWith(OneOfSchemas)
SpecOneOf == InitOneOf /\ [][Next]_vars

InitArray == InitWith(ArraySchemas)
SpecArray == InitArray /\ [][Next]_vars

InitPrimitive == InitWith(PrimitiveSchemas)
SpecPrimitive == InitPrimitive /\ [][Next]_vars

InitPrecedence == InitWith(PrecedenceSchemas)
SpecPrecedence == InitPrecedence /\ [][Next]_vars

SpecNullBranch == InitWith(NullBranchSchemas) /\ [][Next]_vars

(* convert(schema) one parseSchema invocation at a time: pending holds the *)
(* nodes parseSchema is still to be called on, the next one first; a throw *)
(* abandons them.  The call is synchronous, so it keeps running.           *)
InitSteps ==
    /\ schema \in RecursionSchemas
    /\ zodSchema = NoValidator
    /\ value = Undefined
    /\ result = Invalid
    /\ pc = "compiling"
    /\ pending = <<schema>>

Call ==
    /\ pc = "compiling"
    /\ pending # <<>>
    /\ ~Throws(Head(pending))
    /\ pending' = parseSchemaCalls(Head(pending)) \o Tail(pending)
    /\ UNCHANGED <<schema, zodSchema, value, result, pc>>

Throw ==
    /\ pc = "compiling"
    /\ pending # <<>>
    /\ Throws(Head(pending))
    /\ zodSchema' = parseSchema(Head(pending))
    /\ pending' = <<>>
    /\ pc' = "threw"
    /\ UNCHANGED <<schema, value, result>>

Return ==
    /\ pc = "compiling"
    /\ pending = <<>>
    /\ zodSchema' = convert(schema)
    /\ pc' = "converted"
    /\ UNCHANGED <<schema, value, result, pending>>

NextSteps == Call \/ Throw \/ Return

SpecSteps == InitSteps /\ [][NextSteps]_vars /\ WF_vars(NextSteps)

-----------------------------------------------------------------------------
(* Claims                                                                  *)

Converted == pc \in {"converted", "validated"}
Finished == pc # "start"

(* C1: a node without `type` is dispatched in this priority: with any of   *)
(* oneOf/anyOf/allOf present the result is the composite builder's, and a  *)
(* sibling `properties` plays no part in it; otherwise with `properties`   *)
(* present the node is compiled as an object schema; otherwise the         *)
(* validator accepts every value.                                          *)
C1_TypelessDispatch ==
    (Finished /\ ~Has(schema, "type")) =>
        IF HasComposite(schema)
        THEN /\ zodSchema = parseCombinator(schema)
             /\ zodSchema = convert(Without(schema, "properties"))
        ELSE IF Has(schema, "properties")
        THEN /\ zodSchema = parseObject(schema)
             /\ zodSchema.kind = "object"
             /\ PropKeys(zodSchema.shape) = PropKeys(schema["properties"])
        ELSE /\ pc # "threw"
             /\ \A v \in Values : safeParse(zodSchema, v).ok
             /\ pc = "validated" => result.ok

C1_Witness ==
    /\ pc = "validated"
    /\ ~Has(schema, "type")
    /\ Has(schema, "oneOf") /\ Has(schema, "properties")
    /\ schema["properties"] # <<>>
    /\ zodSchema.kind = "union"
    /\ value \in ObjectValues /\ ~result.ok

(* C2: a node whose `type` is a single tag outside string, number,         *)
(* integer, boolean, array, object, and that has none of oneOf/anyOf/      *)
(* allOf, makes convert throw 'Unsupported schema type'; no validator is   *)
(* returned.                                                               *)
C2_UnsupportedTypeThrows ==
    (Finished /\ Has(schema, "type") /\ schema["type"][1] = "scalar"
       /\ schema["type"][2] \notin SixTags /\ ~HasComposite(schema)) =>
        /\ pc = "threw"
        /\ zodSchema = ErrUnsupported

C2_Witness ==
    /\ pc = "threw"
    /\ schema = T("unsupportedType")
    /\ zodSchema.message = "Unsupported schema type"

IsArrayNoItems(s) ==
    Has(s, "type") /\ s["type"] = Scalar("array") /\ ~Has(s, "items")

(* The nodes of a schema tree: the node, and the nodes under its           *)
(* properties, items, additionalProperties and oneOf/anyOf/allOf branches. *)
RECURSIVE TreeNodes(_)
TreeNodes(s) ==
    LET under(q) == UNION {TreeNodes(q[i]) : i \in 1..Len(q)}
    IN {s}
       \cup (IF Has(s, "properties")
             THEN UNION {TreeNodes(s["properties"][i][2]) :
                            i \in 1..Len(s["properties"])}
             ELSE {})
       \cup (IF ~Has(s, "items") THEN {}
             ELSE IF s["items"][1] = "many" THEN under(s["items"][2])
             ELSE TreeNodes(s["items"][2]))
       \cup (IF Has(s, "additionalProperties")
                /\ s["additionalProperties"][1] = "schema"
             THEN TreeNodes(s["additionalProperties"][2])
             ELSE {})
       \cup UNION {IF Has(s, k) THEN under(s[k]) ELSE {} : k \in Composites}

(* The nodes parseSchema is called on while s is compiled, when no call    *)
(* throws: the recursive calls of each builder, by the keyword the         *)
(* dispatch selects.                                                       *)
RECURSIVE CompiledNodes(_)
CompiledNodes(s) ==
    LET under(q) == UNION {CompiledNodes(q[i]) : i \in 1..Len(q)}
        object ==
            (IF Has(s, "properties")
             THEN UNION {CompiledNodes(s["properties"][i][2]) :
                            i \in 1..Len(s["properties"])}
             ELSE {})
            \cup (IF Has(s, "additionalProperties")
                     /\ s["additionalProperties"][1] = "schema"
                  THEN CompiledNodes(s["additionalProperties"][2])
                  ELSE {})
        array ==
            IF ~Has(s, "items") THEN {}
            ELSE IF s["items"][1] = "many" THEN under(s["items"][2])
            ELSE CompiledNodes(s["items"][2])
        composite ==
            IF Has(s, "oneOf") THEN under(s["oneOf"])
            ELSE IF Has(s, "anyOf")
                 THEN IF Len(s["anyOf"]) = 1 THEN under(s["anyOf"])
                      ELSE under(SelectSeq(s["anyOf"],
                               LAMBDA b : ~(Has(b, "type") /\ b["type"] = Scalar("null"))))
            ELSE IF Has(s, "allOf") /\ s["allOf"] # <<>>
                 THEN CompiledNodes(reduceMerge(s["allOf"][1], Tail(s["allOf"])))
            ELSE {}
        tags == IF IsTypeArray(s) THEN s["type"][2] ELSE <<>>
        rest == SelectSeq(tags, LAMBDA x : x # "null")
    IN {s} \cup
       (IF IsTypeArray(s)
        THEN IF Len(rest) < Len(tags)
             THEN CompiledNodes(("type" :> (IF Len(rest) = 1 THEN Scalar(rest[1])
                                            ELSE TypeArray(rest))) @@ s)
             ELSE UNION {CompiledNodes(("type" :> Scalar(tags[i])) @@ s) :
                            i \in 1..Len(tags)}
        ELSE IF ~Has(s, "type")
             THEN IF HasComposite(s) THEN composite ELSE object
        ELSE IF s["type"][2] = "array" THEN array
        ELSE IF s["type"][2] = "object" THEN object
        ELSE IF s["type"][2] \in SixTags THEN {}
        ELSE composite)

(* C3 as claimed: an array schema without `items` anywhere in the tree     *)
(* (root, or under properties, items, additionalProperties or a oneOf/     *)
(* anyOf/allOf branch) makes convert throw.                                *)
C3_AnyArrayWithoutItemsThrows ==
    (Finished /\ \E n \in TreeNodes(schema) : IsArrayNoItems(n)) => pc = "threw"

(* C3 amended: an array schema without `items` that the compiler reaches   *)
(* (the root or a node parseSchema is called on) makes convert throw, and  *)
(* no validator is returned.                                               *)
C3_CompiledArrayWithoutItemsThrows ==
    (Finished /\ \E n \in CompiledNodes(schema) : IsArrayNoItems(n)) =>
        /\ pc = "threw"
        /\ IsError(zodSchema)

C3_Witness ==
    /\ pc = "threw"
    /\ zodSchema = ErrArrayItems
    /\ ~IsArrayNoItems(schema)
    /\ Has(schema, "properties")
    /\ \E n \in CompiledNodes(schema) : IsArrayNoItems(n)

(* The node is one the dispatch hands to the object builder.               *)
IsObjectSchema(s) ==
    IF Has(s, "type") THEN s["type"] = Scalar("object")
    ELSE ~HasComposite(s) /\ Has(s, "properties")

Properties(s) == IF Has(s, "properties") THEN s["properties"] ELSE <<>>
Required(s) == IF Has(s, "required") THEN SeqToSet(s["required"]) ELSE {}
Declared(s) == PropKeys(Properties(s))

(* Every declared property named in `required` is present, and every       *)
(* declared property that is present passes its own compiled validator.    *)
DeclaredValid(s, data) ==
    /\ \A k \in Required(s) \cap Declared(s) : k \in DOMAIN data
    /\ \A k \in Declared(s) \cap DOMAIN data :
          safeParse(convert(PropGet(Properties(s), k)), data[k]).ok

StrictPolicy(s) ==
    ~Has(s, "additionalProperties") \/ s["additionalProperties"] = APBool(FALSE)

(* C4: with additionalProperties absent or false, an object value is       *)
(* accepted if and only if every key is declared, every declared required  *)
(* property is present, and every present declared property passes its     *)
(* child validator.                                                        *)
C4_StrictObjectAcceptance ==
    (pc = "validated" /\ IsObjectSchema(schema) /\ StrictPolicy(schema)
       /\ value[1] = "object") =>
        (result.ok <=> (/\ DOMAIN value[2] \subseteq Declared(schema)
                        /\ DeclaredValid(schema, value[2])))

(* C5: with additionalProperties true or a schema, the validated output of *)
(* an accepted object holds only declared keys; undeclared keys are        *)
(* stripped.                                                               *)
C5_UndeclaredKeysStripped ==
    (pc = "validated" /\ IsObjectSchema(schema) /\ ~StrictPolicy(schema)
       /\ value[1] = "object" /\ result.ok) =>
        DOMAIN result.out[2] \subseteq Declared(schema)

(* C6: with additionalProperties a schema S, an object whose declared      *)
(* properties are all valid is accepted if and only if the value of every  *)
(* undeclared key is accepted by the validator compiled from S.            *)
C6_TypedAdditionalProperties ==
    (pc = "validated" /\ IsObjectSchema(schema)
       /\ Has(schema, "additionalProperties")
       /\ schema["additionalProperties"][1] = "schema"
       /\ value[1] = "object" /\ DeclaredValid(schema, value[2])) =>
        (result.ok <=>
            \A k \in DOMAIN value[2] \ Declared(schema) :
               safeParse(convert(schema["additionalProperties"][2]), value[2][k]).ok)

C6_Witness ==
    /\ pc = "validated"
    /\ IsObjectSchema(schema)
    /\ Has(schema, "additionalProperties")
    /\ schema["additionalProperties"] = APSchema(T("number"))
    /\ Declared(schema) = {"name"}
    /\ value = Obj([k \in {"name", "age"} |-> Alice])
    /\ DeclaredValid(schema, value[2])
    /\ ~result.ok

HasNullTag(s) ==
    IsTypeArray(s) /\ \E i \in 1..Len(s["type"][2]) : s["type"][2][i] = "null"

(* The copy of a nullable node that C7 describes: the same keywords, with  *)
(* `type` the remaining tags, a scalar when exactly one remains.           *)
NonNullCopy(s) ==
    LET rest == SelectSeq(s["type"][2], LAMBDA x : x # "null")
    IN [k \in DOMAIN s |->
          IF k # "type" THEN s[k]
          ELSE IF Len(rest) = 1 THEN Scalar(rest[1]) ELSE TypeArray(rest)]

(* C7: a type array containing 'null' compiles to the validator of the     *)
(* non-null copy made nullable: it accepts null, and otherwise exactly     *)
(* what the copy's validator accepts; it throws when the copy throws.      *)
C7_NullableTypeArray ==
    (Finished /\ HasNullTag(schema)) =>
        /\ zodSchema = Nullable(convert(NonNullCopy(schema)))
        /\ pc = "threw" <=> IsError(convert(NonNullCopy(schema)))
        /\ pc = "validated" =>
              (result.ok <=> (value = Null
                              \/ safeParse(convert(NonNullCopy(schema)), value).ok))

C7_Witness ==
    /\ pc = "validated"
    /\ schema = ("type" :> TypeArray(<<"string", "null">>)) @@ ("format" :> "email")
    /\ value = Alice
    /\ ~result.ok

(* The two spellings of "T or null" with carried keywords K.               *)
IsNullablePair(s) ==
    /\ IsTypeArray(s)
    /\ Len(s["type"][2]) = 2
    /\ s["type"][2][1] \in SixTags
    /\ s["type"][2][2] = "null"

AnyOfSpelling(s) == AnyOfNull(s["type"][2][1], Without(s, "type"))

(* C8: for a recognized tag T and carried keywords K, the validators of    *)
(* { anyOf: [{ type: T, ...K }, { type: 'null' }] } and of                 *)
(* { type: [T, 'null'], ...K } accept the same values and reject the same  *)
(* values (and the one is built exactly when the other is).                *)
C8_AnyOfNullEquivalent ==
    (Finished /\ IsNullablePair(schema)) =>
        /\ pc = "threw" <=> IsError(convert(AnyOfSpelling(schema)))
        /\ pc = "validated" =>
              (result.ok <=> safeParse(convert(AnyOfSpelling(schema)), value).ok)

C8_Witness ==
    /\ pc = "validated"
    /\ schema = AnyOfNull("string", "format" :> "email")
    /\ zodSchema.kind = "union"
    /\ value = Null
    /\ result.ok

(* The merge rule as C9 states it: the later node's keys overwrite the     *)
(* earlier node's, except `properties` (union by name, later definition    *)
(* wins) and `required` (deduplicated union) when both nodes define them.  *)
MergeRule(a, b) ==
    [k \in DOMAIN a \cup DOMAIN b |->
        IF k \in DOMAIN a \cap DOMAIN b /\ k = "properties"
        THEN SpreadProps(a[k], b[k])
        ELSE IF k \in DOMAIN a \cap DOMAIN b /\ k = "required"
        THEN Dedup(a[k] \o b[k])
        ELSE IF k \in DOMAIN b THEN b[k] ELSE a[k]]

RECURSIVE FoldLeft(_)
FoldLeft(q) ==
    IF Len(q) = 1 THEN q[1]
    ELSE MergeRule(FoldLeft(SubSeq(q, 1, Len(q) - 1)), q[Len(q)])

OnlyAllOf(s) ==
    ~Has(s, "type") /\ Has(s, "allOf") /\ ~Has(s, "oneOf") /\ ~Has(s, "anyOf")

(* C9: a non-empty allOf compiles to exactly what the left fold of its     *)
(* branches under the merge rule compiles to; two object branches each     *)
(* requiring its own field give a validator requiring both; an empty allOf *)
(* accepts any value.                                                      *)
C9_AllOfIsMergedSchema ==
    (Finished /\ OnlyAllOf(schema)) =>
        /\ schema["allOf"] # <<>> => zodSchema = convert(FoldLeft(schema["allOf"]))
        /\ schema["allOf"] = <<>> =>
              pc # "threw" /\ \A v \in Values : safeParse(zodSchema, v).ok
        /\ (schema["allOf"] = <<NameBranch, AgeBranch>> /\ pc = "validated"
              /\ value[1] = "object") =>
              (result.ok <=> (/\ DOMAIN value[2] = {"name", "age"}
                              /\ value[2]["name"][1] = "string"
                              /\ value[2]["age"][1] = "number"))

C9_Witness ==
    /\ pc = "validated"
    /\ schema = "allOf" :> <<NameBranch, AgeBranch>>
    /\ value = Obj([k \in {"name"} |-> Alice])
    /\ ~result.ok

(* The format refinement a `format` keyword selects, on a string.          *)
FormatHolds(format, s) ==
    CASE format = "email" -> StringCheck("email", s)
      [] format = "date-time" -> StringCheck("datetime", s)
      [] format = "uri" -> StringCheck("url", s)
      [] format = "uuid" -> StringCheck("uuid", s)
      [] format = "date" -> StringCheck("date", s)

(* C10: a string schema with `enum` accepts a value if and only if it is a *)
(* string, satisfies the format refinement when `format` is one of email,  *)
(* date-time, uri, uuid, date, and is a member of `enum`: the enum test is *)
(* added to the format test and never replaces it.                         *)
C10_StringEnumOnTopOfFormat ==
    (pc = "validated" /\ Has(schema, "type") /\ schema["type"] = Scalar("string")
       /\ Has(schema, "enum")) =>
        (result.ok <=>
            /\ value[1] = "string"
            /\ (Has(schema, "format") /\ schema["format"] \in Formats)
                  => FormatHolds(schema["format"], value[2])
            /\ \E i \in 1..Len(schema["enum"]) : schema["enum"][i] = value)

C10_Witness ==
    /\ pc = "validated"
    /\ Has(schema, "format") /\ schema["format"] = "email"
    /\ Has(schema, "enum") /\ Includes(schema["enum"], Alice)
    /\ zodSchema.kind = "effects"
    /\ value = Alice
    /\ ~result.ok

-----------------------------------------------------------------------------
(* if / then / else                                                        *)

(* What it is for a value to satisfy a conditional subschema, for the      *)
(* keywords the conditional tests use (JSON Schema validation semantics:   *)
(* each keyword constrains only the values of the kind it applies to).     *)
RECURSIVE Satisfies(_, _)
Satisfies(s, v) ==
    /\ (Has(s, "const") => v = s["const"])
    /\ (Has(s, "minimum") /\ v[1] = "number" =>
            \/ v[2] > s["minimum"][2]
            \/ v[2] = s["minimum"][2] /\ v[3] >= s["minimum"][3])
    /\ (Has(s, "required") /\ v[1] = "object" =>
            SeqToSet(s["required"]) \subseteq DOMAIN v[2])
    /\ (Has(s, "properties") /\ v[1] = "object" =>
            \A k \in PropKeys(s["properties"]) \cap DOMAIN v[2] :
                Satisfies(PropGet(s["properties"], k), v[2][k]))

IsConditional(s) ==
    /\ Has(s, "type") /\ s["type"] = Scalar("object")
    /\ Has(s, "if") /\ Has(s, "then")

Unconditional(s) == Without(Without(Without(s, "if"), "then"), "else")

ConditionalHolds(s, v) ==
    IF Satisfies(s["if"], v) THEN Satisfies(s["then"], v)
    ELSE Has(s, "else") => Satisfies(s["else"], v)

(* C11: for an object schema carrying if/then (and optionally else), the   *)
(* compiled validator enforces the conditional: among the values the       *)
(* object schema itself admits, exactly those are accepted that satisfy    *)
(* `then` when they satisfy `if`, and satisfy `else` (when there is one)   *)
(* when they do not; with `if` unsatisfied and no `else` the value is      *)
(* accepted.                                                               *)
C11_ConditionalEnforced ==
    (pc = "validated" /\ IsConditional(schema)) =>
        (result.ok <=>
            /\ safeParse(convert(Unconditional(schema)), value).ok
            /\ ConditionalHolds(schema, value))

-----------------------------------------------------------------------------
(* The input is read-only                                                  *)

(* C12: convert never mutates its input: after a call, whether it returned *)
(* or threw, the schema tree passed in has exactly the keys and values it  *)
(* had before, in every node (allOf branches and nodes with a type array   *)
(* included); no step of the program changes it.                           *)
C12_InputNotMutated == [][schema' = schema]_vars

(* A call that threw after the allOf merge and the type-array copy had     *)
(* both assigned to their working node, and one that returned.             *)
C12_Witness ==
    /\ pc = "threw"
    /\ Has(schema, "allOf") /\ Len(schema["allOf"]) = 2
    /\ Has(schema["allOf"][1], "required") /\ Has(schema["allOf"][2], "required")
    /\ IsTypeArray(schema["allOf"][2])
    /\ Len(convertWrites(Allocate(schema, <<>>))) = 0

-----------------------------------------------------------------------------
(* oneOf                                                                   *)

TypelessOneOf(s) == ~Has(s, "type") /\ Has(s, "oneOf")

Branch(s, i) == convert(s["oneOf"][i])
BranchesCompile(s) == \A i \in 1..Len(s["oneOf"]) : ~IsError(Branch(s, i))

(* C13: for a typeless schema with oneOf, an empty sequence compiles to    *)
(* accept-any, a single element compiles to exactly that element's         *)
(* validator (or throws as it does), and two or more elements whose        *)
(* validators exist compile to a choice that accepts a value exactly when  *)
(* at least one branch's validator accepts it, so a value several branches *)
(* accept is accepted.                                                     *)
C13_OneOfChoice ==
    (Finished /\ TypelessOneOf(schema)) =>
        LET n == Len(schema["oneOf"])
        IN /\ n = 0 => zodSchema = ZAny /\ (pc = "validated" => result = Ok(value))
           /\ n = 1 => zodSchema = Branch(schema, 1)
           /\ n >= 2 =>
                /\ pc = "threw" <=> ~BranchesCompile(schema)
                /\ pc = "validated" =>
                      (result.ok <=>
                          \E i \in 1..n : safeParse(Branch(schema, i), value).ok)

(* Thirty is accepted by the number, the integer and the empty branch of a *)
(* three-branch oneOf, and by the choice.                                  *)
C13_Witness ==
    /\ pc = "validated" /\ TypelessOneOf(schema)
    /\ schema["oneOf"] = <<T("number"), T("integer"), EmptySchema>>
    /\ value = Thirty /\ result.ok
    /\ \A i \in 1..3 : safeParse(Branch(schema, i), value).ok

-----------------------------------------------------------------------------
(* anyOf                                                                   *)

(* The node's composite keyword is read and anyOf is the one selected.     *)
AnyOfSelected(s) ==
    /\ Has(s, "anyOf") /\ ~Has(s, "oneOf")
    /\ Has(s, "type") => s["type"][1] = "scalar" /\ s["type"][2] \notin SixTags

IsNullBranch(s) == Has(s, "type") /\ s["type"] = Scalar("null")

AnyOfBranch(s, i) ==
    IF IsNullBranch(s["anyOf"][i]) THEN ZNull ELSE convert(s["anyOf"][i])

(* C14: for every anyOf sequence, of any length including one, a branch    *)
(* whose type is the tag 'null' is compiled directly to the accept-null    *)
(* validator and not recursively, so it never causes a construction error; *)
(* the other branches are compiled recursively; an empty anyOf compiles to *)
(* accept-any.                                                             *)
C14_AnyOfNullBranchDirect ==
    (Finished /\ AnyOfSelected(schema)) =>
        LET n == Len(schema["anyOf"])
        IN /\ n = 0 => zodSchema = ZAny
           /\ n = 1 => zodSchema = AnyOfBranch(schema, 1)
           /\ n >= 2 => zodSchema = UnionOf([i \in 1..n |-> AnyOfBranch(schema, i)])

-----------------------------------------------------------------------------
(* Type arrays without null                                                *)

PerTagCopy(s, i) == ("type" :> Scalar(s["type"][2][i])) @@ s

(* C15: for a node whose type is an array of one or more tags without      *)
(* 'null', each tag is compiled independently from a per-tag copy of the   *)
(* node carrying all other keywords, and the results are combined into a   *)
(* choice that has at least two alternatives.                              *)
C15_TypeArrayChoiceOfTwo ==
    (Finished /\ IsTypeArray(schema) /\ ~HasNullTag(schema)
              /\ Len(schema["type"][2]) >= 1) =>
        LET n == Len(schema["type"][2])
        IN /\ zodSchema = UnionOf([i \in 1..n |-> convert(PerTagCopy(schema, i))])
           /\ Converted => zodSchema.kind = "union" /\ Len(zodSchema.options) >= 2

-----------------------------------------------------------------------------
(* Array items                                                             *)

IsArraySchema(s) == Has(s, "type") /\ s["type"] = Scalar("array") /\ Has(s, "items")

(* Element e passes the items of s: the one validator, or at least one     *)
(* member of the sequence, whatever the element's index.                   *)
ElementAccepted(s, e) ==
    IF s["items"][1] = "many"
    THEN \E j \in 1..Len(s["items"][2]) : safeParse(convert(s["items"][2][j]), e).ok
    ELSE safeParse(convert(s["items"][2]), e).ok

(* C16: for an array schema whose items is a sequence of schemas, an array *)
(* is accepted if and only if each element is accepted by at least one     *)
(* member, independent of the element's index; when items is a single      *)
(* schema every element is checked against that one validator.             *)
C16_ItemsUniformChoice ==
    (pc = "validated" /\ IsArraySchema(schema)) =>
        (result.ok <=>
            /\ value[1] = "array"
            /\ \A i \in 1..Len(value[2]) : ElementAccepted(schema, value[2][i]))

(* items [string, number] accepts [30, 'Alice'], whose elements match the  *)
(* members in the opposite order.                                          *)
C16_Witness ==
    /\ pc = "validated" /\ IsArraySchema(schema)
    /\ schema["items"] = ManyItems(<<T("string"), T("number")>>)
    /\ value = Arr(<<Thirty, Alice>>)
    /\ result.ok

-----------------------------------------------------------------------------
(* Termination                                                             *)

(* The size of a schema tree: its nodes, plus the tags of its type arrays. *)
RECURSIVE Size(_)
RECURSIVE SumSizes(_)
SumSizes(ns) == IF ns = <<>> THEN 0 ELSE Size(Head(ns)) + SumSizes(Tail(ns))

Size(n) ==
    LET under(k) ==
            IF ~Has(n, k) THEN <<>>
            ELSE CASE k = "properties" -> [i \in 1..Len(n[k]) |-> n[k][i][2]]
                   [] k = "items" ->
                        IF n[k][1] = "many" THEN n[k][2] ELSE <<n[k][2]>>
                   [] k = "additionalProperties" ->
                        IF n[k][1] = "schema" THEN <<n[k][2]>> ELSE <<>>
                   [] OTHER -> n[k]
    IN 1 + (IF IsTypeArray(n) THEN Len(n["type"][2]) ELSE 0)
         + SumSizes(under("properties")) + SumSizes(under("items"))
         + SumSizes(under("additionalProperties"))
         + SumSizes(under("oneOf")) + SumSizes(under("anyOf"))
         + SumSizes(under("allOf"))

CallsDescend(n) ==
    \A i \in 1..Len(parseSchemaCalls(n)) : Size(parseSchemaCalls(n)[i]) < Size(n)

(* The invocations, taken one at a time, end as the compiler does.         *)
StepsAgree ==
    /\ pc = "threw" => zodSchema = convert(schema)
    /\ pc = "converted" => zodSchema = convert(schema) /\ ~IsError(zodSchema)

(* C17: for every finite, acyclic schema tree convert terminates, by       *)
(* returning a validator or by raising a construction error: every         *)
(* recursive call is made on a strictly smaller tree (a child node, a      *)
(* type-array copy with fewer tags or a scalar tag, or an allOf merge      *)
(* result smaller than the allOf node).                                    *)
C17_ConvertTerminates ==
    /\ [](pending # <<>> => CallsDescend(Head(pending)))
    /\ []StepsAgree
    /\ <>(pc \in {"converted", "threw"})

(* convert returned for an allOf whose merge result has an allOf of its    *)
(* own.                                                                    *)
C17_Witness ==
    /\ pc = "converted" /\ pending = <<>>
    /\ Has(schema, "allOf") /\ Len(schema["allOf"]) = 2
    /\ Has(schema["allOf"][2], "allOf")

-----------------------------------------------------------------------------
(* enum on number, integer and boolean                                     *)

IsPrimitiveEnum(s) ==
    /\ Has(s, "type") /\ s["type"][1] = "scalar"
    /\ s["type"][2] \in {"number", "integer", "boolean"}
    /\ Has(s, "enum")

(* C18: for a schema of type number, integer or boolean with enum present, *)
(* the compiled validator accepts a value only if it is a member of the    *)
(* enum list.                                                              *)
C18_PrimitiveEnumConstrains ==
    (pc = "validated" /\ IsPrimitiveEnum(schema) /\ result.ok) =>
        Includes(schema["enum"], value)

-----------------------------------------------------------------------------
(* Precedence among composite keywords                                     *)

SeveralComposites(s) ==
    ~Has(s, "type") /\ Cardinality(DOMAIN s \cap Composites) >= 2

(* The keyword that wins: oneOf, then anyOf, then allOf, by presence.      *)
Winner(s) ==
    IF Has(s, "oneOf") THEN "oneOf" ELSE IF Has(s, "anyOf") THEN "anyOf" ELSE "allOf"

(* C19: when a typeless node carries more than one of oneOf/anyOf/allOf,   *)
(* exactly one is compiled, in the precedence oneOf, anyOf, allOf, and the *)
(* others are ignored: the result is that of the node carrying the winning *)
(* keyword alone, also when the winning keyword is an empty sequence.      *)
C19_CompositePrecedence ==
    (Finished /\ SeveralComposites(schema)) =>
        LET k == Winner(schema)
        IN /\ zodSchema = convert(k :> schema[k])
           /\ pc = "validated" => result = safeParse(convert(k :> schema[k]), value)

(* { oneOf: [], anyOf: [{ type: 'string' }] } accepts a number.            *)
C19_Witness ==
    /\ pc = "validated"
    /\ schema = ("oneOf" :> <<>>) @@ ("anyOf" :> <<T("string")>>)
    /\ value = Thirty /\ result.ok

-----------------------------------------------------------------------------
(* required names without a property                                       *)

(* The names listed in required that have no entry in properties.          *)
Orphans(s) == Required(s) \ Declared(s)

DeclaredRequired(s) ==
    ("required" :> SelectSeq(s["required"], LAMBDA k : k \in Declared(s))) @@ s

(* C20: in the object builder a name listed in required that has no entry  *)
(* in properties adds no presence requirement: the validator is the one    *)
(* built without that name, an object omitting the key is accepted when    *)
(* its declared properties are valid and it has no undeclared key, and     *)
(* under the default strict policy an object containing the key is         *)
(* rejected as carrying an unknown key.                                    *)
C20_RequiredWithoutProperty ==
    (pc = "validated" /\ IsObjectSchema(schema) /\ Orphans(schema) # {}
       /\ value[1] = "object") =>
        /\ zodSchema = convert(DeclaredRequired(schema))
        /\ (/\ DOMAIN value[2] \subseteq Declared(schema)
            /\ DeclaredValid(schema, value[2])) => result.ok
        /\ (StrictPolicy(schema) /\ Orphans(schema) \cap DOMAIN value[2] # {})
              => ~result.ok

(* required: ['name', 'age'] with only name declared: { name: 'Alice' } is *)
(* accepted.                                                               *)
C20_Witness ==
    /\ pc = "validated"
    /\ schema = T("object") @@ Name(T("string")) @@ ("required" :> <<"name", "age">>)
    /\ Orphans(schema) = {"age"}
    /\ value = Obj("name" :> Alice)
    /\ result.ok

-----------------------------------------------------------------------------
(* A null branch under oneOf and under anyOf                               *)

(* The branch { type: 'null' }: the tag null and no composite keyword.     *)
IsNullLiteral(b) == IsNullBranch(b) /\ ~HasComposite(b)

HasNullLiteral(q) == \E i \in 1..Len(q) : IsNullLiteral(q[i])

(* The same branches under anyOf.                                          *)
UnderAnyOf(s) == convert("anyOf" :> s["oneOf"])

SameAcceptance(z1, z2) == \A v \in Values : safeParse(z1, v).ok = safeParse(z2, v).ok

(* C21 as stated: a oneOf sequence of any length >= 1 that contains a      *)
(* branch { type: 'null' } makes convert raise 'Unsupported schema type',  *)
(* whereas the same branches under anyOf with two or more elements compile *)
(* to a validator accepting null; oneOf and anyOf produce equivalent       *)
(* validators only when no branch has type 'null'.                         *)
C21_OneOfNullUnsupported ==
    (Finished /\ TypelessOneOf(schema)) =>
        LET q == schema["oneOf"]
        IN /\ HasNullLiteral(q) =>
                /\ zodSchema = ErrUnsupported
                /\ Len(q) >= 2 =>
                      /\ ~IsError(UnderAnyOf(schema))
                      /\ safeParse(UnderAnyOf(schema), Null).ok
           /\ (/\ Len(q) >= 1 /\ Converted /\ ~IsError(UnderAnyOf(schema))
               /\ SameAcceptance(zodSchema, UnderAnyOf(schema)))
                 => \A i \in 1..Len(q) : ~IsNullBranch(q[i])

(* C21, amended: a oneOf sequence that contains a branch { type: 'null' }  *)
(* makes convert raise a construction error, which is 'Unsupported schema  *)
(* type' when every other branch compiles; the same branches under anyOf   *)
(* with two or more elements compile exactly when every branch whose type  *)
(* is not 'null' compiles, and the validator then accepts null; when no    *)
(* branch has type 'null', oneOf and anyOf give the same result.           *)
C21_OneOfNullThrows ==
    (Finished /\ TypelessOneOf(schema)) =>
        LET q == schema["oneOf"]
            compiles(i) == ~IsError(convert(q[i]))
        IN /\ HasNullLiteral(q) =>
                /\ pc = "threw"
                /\ (\A i \in 1..Len(q) : IsNullLiteral(q[i]) \/ compiles(i))
                      => zodSchema = ErrUnsupported
                /\ Len(q) >= 2 =>
                      /\ ~IsError(UnderAnyOf(schema)) <=>
                            \A i \in 1..Len(q) : IsNullBranch(q[i]) \/ compiles(i)
                      /\ ~IsError(UnderAnyOf(schema)) =>
                            safeParse(UnderAnyOf(schema), Null).ok
           /\ (\A i \in 1..Len(q) : ~IsNullBranch(q[i])) =>
                 UnderAnyOf(schema) = zodSchema

(* oneOf [string, null] threw 'Unsupported schema type'; the same branches *)
(* under anyOf compile and accept null.                                    *)
C21_Witness ==
    /\ pc = "threw" /\ TypelessOneOf(schema)
    /\ schema["oneOf"] = <<T("string"), T("null")>>
    /\ zodSchema = ErrUnsupported
    /\ safeParse(UnderAnyOf(schema), Null).ok

====
